---- MODULE Spec2Model ----
(***************************************************************************)
(* Model of the AI-Quizzer backend (src/api/main.py, src/api/ai_service.py, *)
(* src/quiz/models.py): the relational store (User, UserProfile, Quiz,      *)
(* Question, Submission), the endpoints that read and write it, and the     *)
(* floating-point scoring of submit_quiz.                                   *)
(***************************************************************************)
EXTENDS Integers, Sequences, FiniteSets, TLC

\* ------------------------------------------------------------------ bounds
MaxQuizzes == 1        \* quizzes ever created (ids 1..MaxQuizzes)
MaxQuestions == 1      \* length of the "questions" array the AI returns
MaxScore == 2          \* payload.max_score ranges over 1..MaxScore
MaxResponses == 2      \* length of payload.responses
MaxSubmissions == 2    \* Submission rows ever created
MaxCalls == 2          \* AuthSpec, HintSpec: calls served at the same time
ScoreMaxScore == 10     \* ScoreSpec: quiz.max_score ranges over 1..ScoreMaxScore
ScoreMaxQuestions == 6  \* ScoreSpec: the quiz has 0..ScoreMaxQuestions questions
ScoreMaxResponses == 9  \* ScoreSpec: length of payload.responses

\* ------------------------------------------------- Python float (binary64)
\* A non-negative float is held exactly, as a fixed-point number of Limbs
\* limbs of LimbBits bits, most significant first; limb 1 is the integer part.
\* Every float operation rounds its exact result to MantissaBits significant
\* bits, ties to even, as IEEE-754 does (no value of the model is subnormal
\* or overflows the window).
MantissaBits == 53
LimbBits == 15
Limbs == 6
TotalBits == Limbs * LimbBits

RECURSIVE Power2(_)
Power2(k) == IF k = 0 THEN 1 ELSE 2 * Power2(k - 1)

Pow2Table == [k \in 0..LimbBits |-> Power2(k)]

Pow2(k) == Pow2Table[k]

Base == Power2(LimbBits)

FloatZero == [j \in 1..Limbs |-> 0]

\* bit i of x, i = 1 the most significant bit of limb 1
LimbOf(i) == ((i - 1) \div LimbBits) + 1
ShiftOf(i) == LimbBits - 1 - ((i - 1) % LimbBits)
BitAt(x, i) == (x[LimbOf(i)] \div Pow2(ShiftOf(i))) % 2

\* the bits of x strictly below bit i are not all zero
LowerBitsSet(x, i) ==
    \/ x[LimbOf(i)] % Pow2(ShiftOf(i)) # 0
    \/ \E j \in (LimbOf(i) + 1)..Limbs : x[j] # 0

\* position of the leading 1 bit of x # 0
LeadingBit(x) ==
    LET t == CHOOSE j \in 1..Limbs : x[j] # 0 /\ \A m \in 1..(j - 1) : x[m] = 0
        b == CHOOSE c \in 0..(LimbBits - 1) : Pow2(c) <= x[t] /\ x[t] < Pow2(c + 1)
    IN  (t - 1) * LimbBits + (LimbBits - b)

RECURSIVE QuotientLimbs(_, _, _)
QuotientLimbs(r, n, j) ==
    IF j = 0 THEN <<>>
    ELSE <<(r * Base) \div n>> \o QuotientLimbs((r * Base) % n, n, j - 1)

RECURSIVE QuotientRem(_, _, _)
QuotientRem(r, n, j) ==
    IF j = 0 THEN r ELSE QuotientRem((r * Base) % n, n, j - 1)

RECURSIVE AddFrom(_, _, _, _)
AddFrom(a, b, j, carry) ==
    IF j = 0 THEN <<>>
    ELSE LET s == a[j] + b[j] + carry
         IN  Append(AddFrom(a, b, j - 1, s \div Base), s % Base)

AddLimbs(a, b) == AddFrom(a, b, Limbs, 0)

\* round the exact value x (+ a non-zero tail below the window when sticky)
\* to the nearest float, ties to even
RoundToDouble(x, sticky) ==
    IF \A j \in 1..Limbs : x[j] = 0 THEN FloatZero
    ELSE LET l == LeadingBit(x) + MantissaBits - 1
         IN  IF l >= TotalBits THEN x
             ELSE LET kept == [j \in 1..Limbs |->
                                  IF j < LimbOf(l) THEN x[j]
                                  ELSE IF j = LimbOf(l)
                                       THEN x[j] - (x[j] % Pow2(ShiftOf(l)))
                                       ELSE 0]
                      ulp  == [j \in 1..Limbs |->
                                  IF j = LimbOf(l) THEN Pow2(ShiftOf(l)) ELSE 0]
                  IN  IF /\ BitAt(x, l + 1) = 1
                         /\ (sticky \/ LowerBitsSet(x, l + 1) \/ BitAt(x, l) = 1)
                      THEN AddLimbs(kept, ulp)
                      ELSE AddLimbs(kept, FloatZero)

\* m / n of two ints (true division), n > 0
FloatDiv(m, n) ==
    RoundToDouble(<<m \div n>> \o QuotientLimbs(m % n, n, Limbs - 1),
                  QuotientRem(m % n, n, Limbs - 1) # 0)

\* a + b of two floats
FloatAdd(a, b) == RoundToDouble(AddLimbs(a, b), FALSE)

\* round(x) with no ndigits: the nearest int, an exact half going to the even
\* neighbour
PyRound(x) ==
    IF BitAt(x, LimbBits + 1) = 0 THEN x[1]
    ELSE IF LowerBitsSet(x, LimbBits + 1) THEN x[1] + 1
    ELSE IF x[1] % 2 = 0 THEN x[1] ELSE x[1] + 1

\* ------------------------------------------------------------------ strings
\* A str is a sequence of characters.
Whitespace == {" "}

UpperChar(c) == CASE c = "a" -> "A" [] c = "b" -> "B" [] OTHER -> c

\* str.upper()
Upper(s) == [i \in 1..Len(s) |-> UpperChar(s[i])]

\* str.strip()
Strip(s) ==
    IF \A i \in 1..Len(s) : s[i] \in Whitespace THEN <<>>
    ELSE LET first == CHOOSE i \in 1..Len(s) :
                          s[i] \notin Whitespace /\ \A j \in 1..(i - 1) : s[j] \in Whitespace
             last  == CHOOSE i \in 1..Len(s) :
                          s[i] \notin Whitespace /\ \A j \in (i + 1)..Len(s) : s[j] \in Whitespace
         IN  SubSeq(s, first, last)

\* ------------------------------------------------- JSON, as json.loads gives
JObject(members) == [type |-> "object", value |-> members]
JArray(items) == [type |-> "array", value |-> items]
JString(s) == [type |-> "string", value |-> s]
JNumber == [type |-> "number", value |-> 0]
JNull == [type |-> "null", value |-> 0]

\* ------------------------------------------------------------------- inputs
Usernames == {"ann", "bob"}
Subjects == {"math"}
Grades == {5}

\* GenerateQuizIn: total_questions only words the prompt, max_score is gt 0
GenerateQuizIn == [subject : Subjects, grade : Grades, max_score : 1..MaxScore]

QuestionKeys == {"text", "options", "correct_answer", "difficulty"}

QuestionData(text, answer) ==
    JObject([text |-> text, options |-> JArray(<<>>),
             correct_answer |-> JString(answer), difficulty |-> JString("easy")])

\* what the AI may put in the "questions" array: two usable items, one with a
\* key missing, one with a null text (a NOT NULL column), one that is no object
AIItems ==
    { QuestionData(JString("T1"), <<"A">>),
      QuestionData(JString("T2"), <<"b", " ">>),
      JObject([text |-> JString("T3"), options |-> JArray(<<>>),
               correct_answer |-> JString(<<"A">>)]),
      QuestionData(JNull, <<"A">>),
      JNumber }

RECURSIVE SeqsUpTo(_, _)
SeqsUpTo(S, n) ==
    IF n = 0 THEN {<<>>}
    ELSE LET shorter == SeqsUpTo(S, n - 1)
         IN  shorter \cup {Append(q, x) : q \in {t \in shorter : Len(t) = n - 1}, x \in S}

\* outcomes of ai_service.generate_json_response: it raises HTTPException, or
\* returns whatever JSON value the model's text parsed to
AIJsonOutcomes ==
    {[raised |-> TRUE, value |-> JNull]} \cup
    {[raised |-> FALSE, value |-> v] :
        v \in {JArray(<<>>), JObject([note |-> JNull]), JObject([questions |-> JNumber])}
              \cup {JObject([questions |-> JArray(items)]) :
                       items \in SeqsUpTo(AIItems, MaxQuestions)}}

\* outcomes of ai_service.generate_text_response
AITextOutcomes == {[raised |-> FALSE, status |-> 200],
                   [raised |-> TRUE, status |-> 503]}

UserTexts == {<<"a", " ">>, <<"B">>}

\* -------------------------------------------------------------------- state
VARIABLES
    users,          \* User rows: the usernames
    profiles,       \* UserProfile rows
    quizzes,        \* Quiz rows by id
    questions,      \* Question rows by id
    submissions,    \* Submission rows by id
    nextQuizId, nextQuestionId, nextSubmissionId,   \* the tables' id sequences
    request,        \* the last call: the endpoint and its arguments
    response,       \* what the last call returned to its caller
    grading,        \* ScoreSpec: the locals of one run of submit_quiz's scoring
    hint_cache,     \* the module-level dict hint_cache: question id |-> hint
    calls           \* AuthSpec, HintSpec: the position and locals of each call
                    \* that a worker thread is serving

vars == <<users, profiles, quizzes, questions, submissions,
          nextQuizId, nextQuestionId, nextSubmissionId, request, response, grading,
          hint_cache, calls>>

store == <<users, profiles, quizzes, questions, submissions>>

EmptyMap == <<>>

Init ==
    /\ users = {}
    /\ profiles = {}
    /\ quizzes = EmptyMap
    /\ questions = EmptyMap
    /\ submissions = EmptyMap
    /\ nextQuizId = 1
    /\ nextQuestionId = 1
    /\ nextSubmissionId = 1
    /\ request = [op |-> "none"]
    /\ response = [status |-> 0, body |-> <<>>]
    /\ grading = [pc |-> "idle"]
    /\ hint_cache = EmptyMap
    /\ calls = EmptyMap

\* f with the row id |-> row added
Insert(f, id, row) == [k \in DOMAIN f \cup {id} |-> IF k = id THEN row ELSE f[k]]

\* f without the rows ids
Remove(f, ids) == [k \in DOMAIN f \ ids |-> f[k]]

\* the ids of a set, in ascending order (the order of quiz.questions.all())
RECURSIVE Ascending(_)
Ascending(S) ==
    IF S = {} THEN <<>>
    ELSE LET m == CHOOSE x \in S : \A y \in S : x <= y
         IN  <<m>> \o Ascending(S \ {m})

QuestionsOf(qs, quizId) == {id \in DOMAIN qs : qs[id].quiz = quizId}

\* ------------------------------------------------------- get_current_user
GetCurrentUser(username) ==
    /\ users' = users \cup {username}
    /\ profiles' = IF username \in users THEN profiles
                   ELSE profiles \cup {[user |-> username, performance_metrics |-> EmptyMap]}
    /\ request' = [op |-> "get_current_user", username |-> username]
    /\ response' = [status |-> 200, body |-> username]
    /\ UNCHANGED <<quizzes, questions, submissions, nextQuizId, nextQuestionId,
                   nextSubmissionId, grading, hint_cache, calls>>

\* ----------------------------------------------------------- generate_quiz
\* the loop over questions_data: the usable items in order, or the TypeError
\* that "key in q_data" raises on an item that is no container
RECURSIVE CollectQuestions(_, _)
CollectQuestions(items, i) ==
    IF i > Len(items) THEN [raised |-> FALSE, list |-> <<>>]
    ELSE LET q_data == items[i]
             rest   == CollectQuestions(items, i + 1)
         IN  IF q_data.type \in {"number", "null"}
                 THEN [raised |-> TRUE, list |-> <<>>]
             ELSE IF q_data.type = "object" /\ QuestionKeys \subseteq DOMAIN q_data.value
                 THEN [raised |-> rest.raised, list |-> <<q_data.value>> \o rest.list]
             ELSE rest

\* Question.objects.bulk_create: one INSERT, which the database refuses as a
\* whole (IntegrityError) when a NOT NULL column gets a null
BulkCreateFails(list) == \E i \in 1..Len(list) : list[i].text.type = "null"

\* how the body of generate_quiz ends for one outcome of the AI call:
\*   "created"     the questions are inserted and the quiz is returned
\*   "rolled_back" HTTPException or ValueError was caught: quiz.delete(), 500
\*   "unhandled"   another exception left the function through the try block
GenerateResult(ai) ==
    IF ai.raised THEN [kind |-> "rolled_back", list |-> <<>>]
    ELSE IF ai.value.type # "object" THEN [kind |-> "unhandled", list |-> <<>>]
    ELSE LET questions_data == IF "questions" \in DOMAIN ai.value.value
                               THEN ai.value.value.questions
                               ELSE JArray(<<>>)
         IN  IF questions_data.type \in {"number", "null"}
                 THEN [kind |-> "unhandled", list |-> <<>>]
             ELSE LET got == CollectQuestions(questions_data.value, 1)
                  IN  IF got.raised THEN [kind |-> "unhandled", list |-> <<>>]
                      ELSE IF got.list = <<>> THEN [kind |-> "rolled_back", list |-> <<>>]
                      ELSE IF BulkCreateFails(got.list)
                          THEN [kind |-> "unhandled", list |-> <<>>]
                      ELSE [kind |-> "created", list |-> got.list]

QuestionRow(quizId, q_data) ==
    [quiz |-> quizId, text |-> q_data.text.value, options |-> [choices |-> q_data.options],
     correct_answer |-> q_data.correct_answer.value, difficulty |-> q_data.difficulty.value]

QuestionOut(qs, id) ==
    [id |-> id, text |-> qs[id].text, options |-> qs[id].options,
     difficulty |-> qs[id].difficulty]

Title(subject, grade) == <<subject, "Quiz for Grade", grade>>

QuizOut(qz, qs, quizId) ==
    [quiz_id |-> quizId, title |-> qz[quizId].title, subject |-> qz[quizId].subject,
     grade |-> qz[quizId].grade,
     questions |-> LET ids == Ascending(QuestionsOf(qs, quizId))
                   IN  [i \in 1..Len(ids) |-> QuestionOut(qs, ids[i])]]

\* quiz.delete(): the row, and by on_delete=CASCADE its questions and submissions
DeleteQuiz(f, quizId) == Remove(f, {id \in DOMAIN f : f[id].quiz = quizId})

\* user.profile
ProfileOf(ps, user) == CHOOSE p \in ps : p.user = user

\* performance_metrics.get(payload.subject, {"correct": 0, "total": 0})
Performance(performance_metrics, subject) ==
    IF subject \in DOMAIN performance_metrics THEN performance_metrics[subject]
    ELSE [correct |-> 0, total |-> 0]

\* the rate of a subject without history, the literal 0.5
DefaultRate == FloatDiv(1, 2)

\* performance['correct'] / performance['total'] if performance['total'] > 0 else 0.5
SuccessRate(performance) ==
    IF performance.total > 0 THEN FloatDiv(performance.correct, performance.total)
    ELSE DefaultRate

\* the request records the success rate the prompt is built from
GenerateQuiz(user, payload, ai) ==
    /\ user \in users
    /\ nextQuizId <= MaxQuizzes
    /\ request' = [op |-> "generate_quiz", user |-> user, payload |-> payload,
                   success_rate |->
                       SuccessRate(Performance(ProfileOf(profiles, user).performance_metrics,
                                               payload.subject))]
    /\ LET quizId   == nextQuizId
           quiz     == [title |-> Title(payload.subject, payload.grade),
                        grade |-> payload.grade, subject |-> payload.subject,
                        max_score |-> payload.max_score]
           withQuiz == Insert(quizzes, quizId, quiz)
           result   == GenerateResult(ai)
           n        == Len(result.list)
           newQs    == [k \in DOMAIN questions \cup (nextQuestionId..(nextQuestionId + n - 1)) |->
                           IF k \in DOMAIN questions THEN questions[k]
                           ELSE QuestionRow(quizId, result.list[k - nextQuestionId + 1])]
       IN  /\ nextQuizId' = nextQuizId + 1
           /\ \/ /\ result.kind = "created"
                 /\ quizzes' = withQuiz
                 /\ questions' = newQs
                 /\ nextQuestionId' = nextQuestionId + n
                 /\ UNCHANGED submissions
                 /\ response' = [status |-> 200,
                                 body |-> QuizOut(withQuiz, newQs, quizId)]
              \/ /\ result.kind = "rolled_back"
                 /\ quizzes' = Remove(withQuiz, {quizId})
                 /\ questions' = DeleteQuiz(questions, quizId)
                 /\ submissions' = DeleteQuiz(submissions, quizId)
                 /\ UNCHANGED nextQuestionId
                 /\ response' = [status |-> 500,
                                 body |-> "AI service failed to generate the quiz."]
              \/ /\ result.kind = "unhandled"
                 /\ quizzes' = withQuiz
                 /\ UNCHANGED <<questions, nextQuestionId, submissions>>
                 /\ response' = [status |-> 500,
                                 body |-> "Internal Server Error"]
    /\ UNCHANGED <<users, profiles, nextSubmissionId, grading, hint_cache>>

\* ------------------------------------------------------------- submit_quiz
QuizResponseItem(ids) == [questionId : ids, userResponse : UserTexts]

\* {q.id: q for q in quiz.questions.all()}
QuestionMap(qs, quizId) == [id \in QuestionsOf(qs, quizId) |-> qs[id]]

PointsPerQuestion(max_score, total_questions) ==
    IF total_questions = 0 THEN FloatZero ELSE FloatDiv(max_score, total_questions)

\* questions.get(resp.questionId) found a question
Found(qmap, questionId) == questionId \in DOMAIN qmap

IsCorrect(userResponse, correct_answer) ==
    Upper(Strip(userResponse)) = Upper(Strip(correct_answer))

\* user_answers[str(question.id)] = resp.userResponse
SetAnswer(user_answers, id, text) == Insert(user_answers, ToString(id), text)

\* if is_correct: calculated_score += points_per_question
AddPoints(calculated_score, is_correct, points_per_question) ==
    IF is_correct THEN FloatAdd(calculated_score, points_per_question)
    ELSE calculated_score

GradeStart ==
    [correct_count |-> 0, calculated_score |-> FloatZero, detailed_results |-> <<>>,
     user_answers |-> EmptyMap, detailed_breakdown |-> <<>>]

\* faulty variant: a response to a question that is not of the quiz is recorded as a
\* wrong answer instead of being skipped
GradeStepCountsUnknown(acc, resp, qmap, points_per_question) ==
    LET known      == Found(qmap, resp.questionId)
        is_correct == known /\ IsCorrect(resp.userResponse,
                                         qmap[resp.questionId].correct_answer)
        answer     == IF known THEN qmap[resp.questionId].correct_answer ELSE <<>>
    IN  [correct_count |-> acc.correct_count + (IF is_correct THEN 1 ELSE 0),
         calculated_score |->
             AddPoints(acc.calculated_score, is_correct, points_per_question),
         detailed_breakdown |-> Append(acc.detailed_breakdown,
             [question_text |-> IF known THEN qmap[resp.questionId].text ELSE "",
              is_correct |-> is_correct,
              user_answer |-> Upper(resp.userResponse), correct_answer |-> answer]),
         detailed_results |-> Append(acc.detailed_results,
             [question_id |-> resp.questionId, is_correct |-> is_correct,
              user_answer |-> resp.userResponse, correct_answer |-> answer]),
         user_answers |-> SetAnswer(acc.user_answers, resp.questionId, resp.userResponse)]

\* one pass of "for resp in payload.responses"
GradeStep(acc, resp, qmap, points_per_question) ==
    IF ~Found(qmap, resp.questionId) THEN acc
    ELSE LET question   == qmap[resp.questionId]
             is_correct == IsCorrect(resp.userResponse, question.correct_answer)
         IN  [correct_count |-> acc.correct_count + (IF is_correct THEN 1 ELSE 0),
              calculated_score |->
                  AddPoints(acc.calculated_score, is_correct, points_per_question),
              detailed_breakdown |-> Append(acc.detailed_breakdown,
                  [question_text |-> question.text, is_correct |-> is_correct,
                   user_answer |-> Upper(resp.userResponse),
                   correct_answer |-> question.correct_answer]),
              detailed_results |-> Append(acc.detailed_results,
                  [question_id |-> resp.questionId, is_correct |-> is_correct,
                   user_answer |-> resp.userResponse,
                   correct_answer |-> question.correct_answer]),
              user_answers |-> SetAnswer(acc.user_answers, resp.questionId, resp.userResponse)]

RECURSIVE GradeLoop(_, _, _, _, _)
GradeLoop(acc, responses, i, qmap, points_per_question) ==
    IF i > Len(responses) THEN acc
    ELSE GradeLoop(GradeStep(acc, responses[i], qmap, points_per_question),
                   responses, i + 1, qmap, points_per_question)

Grade(max_score, qmap, responses) ==
    GradeLoop(GradeStart, responses, 1, qmap,
              PointsPerQuestion(max_score, Cardinality(DOMAIN qmap)))

\* score=round(calculated_score)
FinalScore(calculated_score) == PyRound(calculated_score)

NewSubmission(quizId, user, max_score, graded) ==
    [quiz |-> quizId, user |-> user, answers |-> graded.user_answers,
     results |-> graded.detailed_results,
     score |-> FinalScore(graded.calculated_score), max_score |-> max_score,
     is_retry |-> FALSE]

\* faulty variant: update_or_create on (quiz, user), which replaces the user's
\* earlier attempt at the quiz
SubmissionsAfterSubmitReplacing(subs, id, row) ==
    Insert(Remove(subs, {k \in DOMAIN subs :
                            subs[k].quiz = row.quiz /\ subs[k].user = row.user}),
           id, row)

\* the store's Submission table after Submission.objects.create
SubmissionsAfterSubmit(subs, id, row) == Insert(subs, id, row)

\* the response of a submit_quiz call that found its quiz: the AI is asked for
\* suggestions only when an answer was wrong, and its HTTPException propagates
SubmitResponse(submissionId, row, graded, total_questions, ai) ==
    LET wrong_questions == {i \in 1..Len(graded.detailed_results) :
                               ~graded.detailed_results[i].is_correct}
    IN  IF wrong_questions # {} /\ ai.raised
        THEN [status |-> ai.status,
              body |-> "AI service failed to generate a text response."]
        ELSE [status |-> 200,
              body |-> [submissionId |-> submissionId,
                        score |-> row.score,
                        maxScore |-> row.max_score,
                        correctQuestions |-> graded.correct_count,
                        totalQuestions |-> total_questions,
                        detailed_breakdown |-> graded.detailed_breakdown]]

\* the caller and the outcome of the AI call are drawn inside the action, after
\* the grading they do not influence
SubmitQuiz(quizId, responses) ==
    /\ nextSubmissionId <= MaxSubmissions
    /\ IF quizId \notin DOMAIN quizzes
       THEN /\ \E user \in users :
                  request' = [op |-> "submit_quiz", user |-> user, quizId |-> quizId,
                              responses |-> responses]
            /\ response' = [status |-> 404, body |-> "Quiz not found"]
            /\ UNCHANGED <<submissions, nextSubmissionId>>
       ELSE LET qmap   == QuestionMap(questions, quizId)
                graded == Grade(quizzes[quizId].max_score, qmap, responses)
            IN  \E user \in users, ai \in AITextOutcomes :
                  LET row == NewSubmission(quizId, user, quizzes[quizId].max_score, graded)
                  IN  /\ request' = [op |-> "submit_quiz", user |-> user,
                                     quizId |-> quizId, responses |-> responses]
                      /\ submissions' =
                           SubmissionsAfterSubmit(submissions, nextSubmissionId, row)
                      /\ nextSubmissionId' = nextSubmissionId + 1
                      /\ response' = SubmitResponse(nextSubmissionId, row, graded,
                                                    Cardinality(DOMAIN qmap), ai)
    /\ UNCHANGED <<users, profiles, quizzes, questions, nextQuizId, nextQuestionId,
                   grading, hint_cache, calls>>

\* ------------------------------------------------- get_submission_details
\* faulty variant: the lookup by id alone, get(id=submission_id)
OwnSubmissionAnyUser(subs, submission_id, user) == submission_id \in DOMAIN subs

\* Submission.objects.get(id=submission_id, user=user) finds a row
OwnSubmission(subs, submission_id, user) ==
    submission_id \in DOMAIN subs /\ subs[submission_id].user = user

SentinelText == "Question text not found."

\* faulty variant: correctness judged again at review time, against the question as
\* it is now
QuestionReviewRegraded(result_item, question_texts) ==
    [question_text |-> IF result_item.question_id \in DOMAIN question_texts
                       THEN question_texts[result_item.question_id]
                       ELSE SentinelText,
     your_answer |-> Upper(result_item.user_answer),
     correct_answer |-> result_item.correct_answer,
     is_correct |-> /\ result_item.question_id \in DOMAIN question_texts
                    /\ IsCorrect(result_item.user_answer, result_item.correct_answer)]

QuestionReview(result_item, question_texts) ==
    [question_text |-> IF result_item.question_id \in DOMAIN question_texts
                       THEN question_texts[result_item.question_id]
                       ELSE SentinelText,
     your_answer |-> Upper(result_item.user_answer),
     correct_answer |-> result_item.correct_answer,
     is_correct |-> result_item.is_correct]

SubmissionReviewOut(submission_id, submission, question_texts) ==
    [submission_id |-> submission_id,
     quiz_title |-> quizzes[submission.quiz].title,
     score |-> submission.score,
     max_score |-> submission.max_score,
     questions |-> [i \in 1..Len(submission.results) |->
                       QuestionReview(submission.results[i], question_texts)]]

GetSubmissionDetails(user, submission_id) ==
    /\ user \in users
    /\ request' = [op |-> "get_submission_details", user |-> user,
                   submission_id |-> submission_id]
    /\ response' =
         IF ~OwnSubmission(submissions, submission_id, user)
         THEN [status |-> 404,
               body |-> "Submission not found or you do not have permission to view it."]
         ELSE LET submission == submissions[submission_id]
                  question_texts ==
                      [id \in QuestionsOf(questions, submission.quiz) |-> questions[id].text]
              IN  [status |-> 200,
                   body |-> SubmissionReviewOut(submission_id, submission, question_texts)]
    /\ UNCHANGED <<users, profiles, quizzes, questions, submissions,
                   nextQuizId, nextQuestionId, nextSubmissionId, grading, hint_cache, calls>>

\* --------------------------------------------------------------- retry_quiz
\* faulty variant: the retried submission is marked is_retry
SubmissionsAfterRetryMarked(subs, submission_id) ==
    [subs EXCEPT ![submission_id].is_retry = TRUE]

\* the Submission table after retry_quiz: the handler only reads it
SubmissionsAfterRetry(subs, submission_id) == subs

RetryQuiz(user, submission_id) ==
    /\ user \in users
    /\ request' = [op |-> "retry_quiz", user |-> user, submission_id |-> submission_id]
    /\ IF ~OwnSubmission(submissions, submission_id, user)
       THEN /\ response' = [status |-> 404,
                 body |-> "Submission not found or you do not have permission to retry it."]
            /\ UNCHANGED submissions
       ELSE /\ response' = [status |-> 200,
                 body |-> QuizOut(quizzes, questions, submissions[submission_id].quiz)]
            /\ submissions' = SubmissionsAfterRetry(submissions, submission_id)
    /\ UNCHANGED <<users, profiles, quizzes, questions,
                   nextQuizId, nextQuestionId, nextSubmissionId, grading, hint_cache, calls>>

\* ------------------------------------------------------------ specification
Next ==
    \/ \E username \in Usernames : GetCurrentUser(username)
    \/ \E user \in Usernames, payload \in GenerateQuizIn, ai \in AIJsonOutcomes :
           GenerateQuiz(user, payload, ai) /\ UNCHANGED calls
    \/ \E quizId \in 1..nextQuizId,
          responses \in SeqsUpTo(QuizResponseItem(1..nextQuestionId), MaxResponses) :
           SubmitQuiz(quizId, responses)
    \/ \E user \in Usernames, submission_id \in 1..nextSubmissionId :
           GetSubmissionDetails(user, submission_id)
    \/ \E user \in Usernames, submission_id \in 1..nextSubmissionId :
           RetryQuiz(user, submission_id)

Spec == Init /\ [][Next]_vars

\* ----------------------------------------- the store changed behind the API
\* A Question row removed from the database without its quiz (the tables are
\* Django models; the handlers of src/ never delete a question on its own).
DeleteQuestion(id) ==
    /\ id \in DOMAIN questions
    /\ questions' = Remove(questions, {id})
    /\ request' = [op |-> "delete_question", id |-> id]
    /\ response' = [status |-> 0, body |-> <<>>]
    /\ UNCHANGED <<users, profiles, quizzes, submissions,
                   nextQuizId, nextQuestionId, nextSubmissionId, grading, hint_cache, calls>>

ReviewNext == Next \/ \E id \in 1..nextQuestionId : DeleteQuestion(id)

ReviewSpec == Init /\ [][ReviewNext]_vars

\* ------------------------------------------- the scoring of submit_quiz alone
\* The score of one call as a function of quiz.max_score, the number of
\* questions and the responses: the loop of lines 384-392 run response by
\* response on a quiz of total_questions questions, keeping the two
\* accumulators the score is computed from, then line 414.
ScoreQuestions(n) ==
    [id \in 1..n |-> [quiz |-> 1, text |-> <<"T">>, options |-> [choices |-> JArray(<<>>)],
                      correct_answer |-> <<"b", " ">>, difficulty |-> <<"easy">>]]

ScoreInit ==
    /\ users = {} /\ profiles = {}
    /\ quizzes = EmptyMap /\ questions = EmptyMap /\ submissions = EmptyMap
    /\ nextQuizId = 1 /\ nextQuestionId = 1 /\ nextSubmissionId = 1
    /\ request = [op |-> "none"]
    /\ response = [status |-> 0, body |-> <<>>]
    /\ hint_cache = EmptyMap /\ calls = EmptyMap
    /\ \E max_score \in 1..ScoreMaxScore, total_questions \in 0..ScoreMaxQuestions :
           grading = [pc |-> "loop", max_score |-> max_score,
                      total_questions |-> total_questions,
                      processed |-> 0, correct_count |-> 0,
                      calculated_score |-> FloatZero, score |-> 0]

ScoreRespond(resp) ==
    /\ grading.pc = "loop"
    /\ grading.processed < ScoreMaxResponses
    /\ LET acc == [GradeStart EXCEPT !.correct_count = grading.correct_count,
                                     !.calculated_score = grading.calculated_score]
           got == GradeStep(acc, resp, ScoreQuestions(grading.total_questions),
                            PointsPerQuestion(grading.max_score, grading.total_questions))
       IN  grading' = [grading EXCEPT !.processed = @ + 1,
                                      !.correct_count = got.correct_count,
                                      !.calculated_score = got.calculated_score]
    /\ UNCHANGED <<store, nextQuizId, nextQuestionId, nextSubmissionId, request, response,
                   hint_cache, calls>>

ScoreFinish ==
    /\ grading.pc = "loop"
    /\ grading' = [grading EXCEPT !.pc = "done",
                                  !.score = FinalScore(grading.calculated_score)]
    /\ UNCHANGED <<store, nextQuizId, nextQuestionId, nextSubmissionId, request, response,
                   hint_cache, calls>>

\* the responses of ScoreSpec name the first question, the last one or no
\* question of the quiz
ScoreNext ==
    \/ \E resp \in QuizResponseItem({1, grading.total_questions,
                                     grading.total_questions + 1}) : ScoreRespond(resp)
    \/ ScoreFinish

ScoreSpec == ScoreInit /\ [][ScoreNext]_vars

\* ------------------------------- concurrent calls through get_current_user
\* The endpoints are plain "def" functions, which FastAPI runs on worker
\* threads: calls overlap, and each statement that reaches the database is a
\* step of its own (no transaction spans get_current_user).  AuthSpec follows
\* MaxCalls generate_quiz calls through the dependency get_current_user and
\* into the handler: get_or_create, UserProfile.objects.create, the handler's
\* read of user.profile, then the rest of generate_quiz.
NoCall == [pc |-> "idle", username |-> "", created |-> FALSE, profiles_seen |-> 0]

AuthInit ==
    /\ users = {} /\ profiles = {}
    /\ quizzes = EmptyMap /\ questions = EmptyMap /\ submissions = EmptyMap
    /\ nextQuizId = 1 /\ nextQuestionId = 1 /\ nextSubmissionId = 1
    /\ request = [op |-> "none"]
    /\ response = [status |-> 0, body |-> <<>>]
    /\ grading = [pc |-> "idle"]
    /\ hint_cache = EmptyMap
    /\ calls = [c \in 1..MaxCalls |-> NoCall]

\* payload.get("sub") of the decoded token
DecodeToken(c, username) ==
    /\ calls[c].pc = "idle"
    /\ calls' = [calls EXCEPT ![c] = [NoCall EXCEPT !.pc = "get_or_create",
                                                   !.username = username]]
    /\ UNCHANGED <<store, nextQuizId, nextQuestionId, nextSubmissionId,
                   request, response, grading, hint_cache>>

\* User.objects.get_or_create(username=username): one row per username
GetOrCreate(c) ==
    /\ calls[c].pc = "get_or_create"
    /\ LET created == calls[c].username \notin users
       IN  /\ users' = users \cup {calls[c].username}
           /\ calls' = [calls EXCEPT ![c].created = created,
                                     ![c].pc = IF created THEN "create_profile"
                                               ELSE "endpoint"]
    /\ UNCHANGED <<profiles, quizzes, questions, submissions, nextQuizId, nextQuestionId,
                   nextSubmissionId, request, response, grading, hint_cache>>

\* if created: UserProfile.objects.create(user=user)
CreateProfile(c) ==
    /\ calls[c].pc = "create_profile"
    /\ profiles' = profiles \cup {[user |-> calls[c].username,
                                   performance_metrics |-> EmptyMap]}
    /\ calls' = [calls EXCEPT ![c].pc = "endpoint"]
    /\ UNCHANGED <<users, quizzes, questions, submissions, nextQuizId, nextQuestionId,
                   nextSubmissionId, request, response, grading, hint_cache>>

\* user_profile = user.profile, which raises RelatedObjectDoesNotExist when no
\* UserProfile row points at the user
ReadProfile(c) ==
    /\ calls[c].pc = "endpoint"
    /\ LET seen == Cardinality({p \in profiles : p.user = calls[c].username})
       IN  calls' = [calls EXCEPT ![c].profiles_seen = seen,
                                  ![c].pc = IF seen = 0 THEN "failed" ELSE "profile_read"]
    /\ UNCHANGED <<store, nextQuizId, nextQuestionId, nextSubmissionId,
                   request, response, grading, hint_cache>>

\* lines 302-357 of the call
FinishGenerate(c, payload, ai) ==
    /\ calls[c].pc = "profile_read"
    /\ GenerateQuiz(calls[c].username, payload, ai)
    /\ calls' = [calls EXCEPT ![c].pc = "done"]

AuthNext ==
    \/ \E c \in 1..MaxCalls, username \in Usernames : DecodeToken(c, username)
    \/ \E c \in 1..MaxCalls : GetOrCreate(c)
    \/ \E c \in 1..MaxCalls : CreateProfile(c)
    \/ \E c \in 1..MaxCalls : ReadProfile(c)
    \/ \E c \in 1..MaxCalls, payload \in GenerateQuizIn, ai \in AIJsonOutcomes :
           FinishGenerate(c, payload, ai)

AuthSpec == AuthInit /\ [][AuthNext]_vars

\* ------------------------------------------------------- concurrent get_hint
\* HintSpec follows MaxCalls get_hint calls on worker threads; hint_cache is a
\* dict of the process that all of them share.  A call is at the cache test
\* (line 548), the question lookup (552), the AI call (562) or the cache write
\* and return (565-567); between two of these another call may run.  Users and
\* quizzes come into being as in Spec, and a Question row may be removed
\* behind the API.
NoHintCall == [pc |-> "idle", questionId |-> 0, ai_hint |-> <<>>, status |-> 0,
               hint |-> <<>>, asked_ai |-> FALSE, looked_up |-> FALSE]

\* what generate_text_response gives get_hint: an HTTPException, response.text
\* as a string, or response.text None
HintTexts == {<<"h", " ">>, <<"g">>}

AIHintOutcomes ==
    {[raised |-> TRUE, status |-> 503, is_none |-> FALSE, text |-> <<>>],
     [raised |-> FALSE, status |-> 200, is_none |-> TRUE, text |-> <<>>]}
    \cup {[raised |-> FALSE, status |-> 200, is_none |-> FALSE, text |-> t] :
             t \in HintTexts}

HintInit ==
    /\ users = {} /\ profiles = {}
    /\ quizzes = EmptyMap /\ questions = EmptyMap /\ submissions = EmptyMap
    /\ nextQuizId = 1 /\ nextQuestionId = 1 /\ nextSubmissionId = 1
    /\ request = [op |-> "none"]
    /\ response = [status |-> 0, body |-> <<>>]
    /\ grading = [pc |-> "idle"]
    /\ hint_cache = EmptyMap
    /\ calls = [c \in 1..MaxCalls |-> NoHintCall]

HintFrame == <<store, nextQuizId, nextQuestionId, nextSubmissionId,
               request, response, grading>>

\* a call of an authenticated user arrives
HintStart(c, questionId) ==
    /\ users # {}
    /\ calls[c].pc = "idle"
    /\ calls' = [calls EXCEPT ![c] = [NoHintCall EXCEPT !.pc = "check_cache",
                                                       !.questionId = questionId]]
    /\ UNCHANGED <<HintFrame, hint_cache>>

\* if payload.questionId in hint_cache: return the cached hint
CheckCache(c) ==
    /\ calls[c].pc = "check_cache"
    /\ calls' = IF calls[c].questionId \in DOMAIN hint_cache
                THEN [calls EXCEPT ![c].pc = "done", ![c].status = 200,
                                   ![c].hint = hint_cache[calls[c].questionId]]
                ELSE [calls EXCEPT ![c].pc = "lookup"]
    /\ UNCHANGED <<HintFrame, hint_cache>>

\* Question.objects.get(id=payload.questionId), or 404
LookupQuestion(c) ==
    /\ calls[c].pc = "lookup"
    /\ calls' = IF calls[c].questionId \in DOMAIN questions
                THEN [calls EXCEPT ![c].pc = "ask_ai", ![c].looked_up = TRUE]
                ELSE [calls EXCEPT ![c].pc = "done", ![c].status = 404,
                                   ![c].looked_up = TRUE]
    /\ UNCHANGED <<HintFrame, hint_cache>>

\* ai_hint = ai_service.generate_text_response(prompt)
AskAI(c, ai) ==
    /\ calls[c].pc = "ask_ai"
    /\ calls' = IF ai.raised
                THEN [calls EXCEPT ![c].pc = "done", ![c].status = ai.status,
                                   ![c].asked_ai = TRUE]
                ELSE [calls EXCEPT ![c].pc = IF ai.is_none THEN "store_none" ELSE "store",
                                   ![c].ai_hint = ai.text, ![c].asked_ai = TRUE]
    /\ UNCHANGED <<HintFrame, hint_cache>>

\* hint_cache[payload.questionId] = ai_hint.strip() and the return; on None
\* .strip() raises AttributeError before the assignment
StoreHint(c) ==
    /\ calls[c].pc \in {"store", "store_none"}
    /\ IF calls[c].pc = "store_none"
       THEN /\ calls' = [calls EXCEPT ![c].pc = "done", ![c].status = 500]
            /\ UNCHANGED hint_cache
       ELSE /\ hint_cache' = Insert(hint_cache, calls[c].questionId,
                                    Strip(calls[c].ai_hint))
            /\ calls' = [calls EXCEPT ![c].pc = "done", ![c].status = 200,
                                      ![c].hint = Strip(calls[c].ai_hint)]
    /\ UNCHANGED HintFrame

\* the response is sent and the worker thread takes the next call
HintDone(c) ==
    /\ calls[c].pc = "done"
    /\ calls' = [calls EXCEPT ![c] = NoHintCall]
    /\ UNCHANGED <<HintFrame, hint_cache>>

HintNext ==
    \/ \E username \in Usernames : GetCurrentUser(username)
    \/ \E user \in Usernames, payload \in GenerateQuizIn, ai \in AIJsonOutcomes :
           GenerateQuiz(user, payload, ai) /\ UNCHANGED calls
    \/ \E id \in 1..nextQuestionId : DeleteQuestion(id)
    \/ \E c \in 1..MaxCalls, questionId \in 1..nextQuestionId : HintStart(c, questionId)
    \/ \E c \in 1..MaxCalls : CheckCache(c)
    \/ \E c \in 1..MaxCalls : LookupQuestion(c)
    \/ \E c \in 1..MaxCalls, ai \in AIHintOutcomes : AskAI(c, ai)
    \/ \E c \in 1..MaxCalls : StoreHint(c)
    \/ \E c \in 1..MaxCalls : HintDone(c)

HintSpec == HintInit /\ [][HintNext]_vars

\* ------------------------------------------------------------------ claims
\* the last call was a submit_quiz that found its quiz; the row it created
LastSubmitPersisted ==
    request.op = "submit_quiz" /\ request.quizId \in DOMAIN quizzes

LastRow == submissions[nextSubmissionId - 1]

\* C1: every persisted Submission has an integer score with
\* 0 <= score <= max_score, whatever the responses were.
C1_ScoreWithinMaxScore ==
    \A id \in DOMAIN submissions :
        /\ submissions[id].score \in Int
        /\ 0 <= submissions[id].score
        /\ submissions[id].score <= submissions[id].max_score

\* C3: when the responses repeat a question id the last entry wins: one outcome
\* record and one stored answer for the question, both from the last entry,
\* and only that entry counts for the score and the correct count.
LastEntries(responses) ==
    LET IsLast(i) == \A j \in (i + 1)..Len(responses) :
                         responses[j].questionId # responses[i].questionId
        RECURSIVE Keep(_)
        Keep(i) == IF i > Len(responses) THEN <<>>
                   ELSE IF IsLast(i) THEN <<responses[i]>> \o Keep(i + 1)
                   ELSE Keep(i + 1)
    IN  Keep(1)

C3_LastEntryWins ==
    LastSubmitPersisted =>
        LET responses == request.responses
            qmap      == QuestionMap(questions, request.quizId)
            once      == Grade(quizzes[request.quizId].max_score, qmap,
                               LastEntries(responses))
        IN  /\ \A q \in DOMAIN qmap :
                 \A i \in 1..Len(responses) :
                    (/\ responses[i].questionId = q
                     /\ \A j \in (i + 1)..Len(responses) : responses[j].questionId # q)
                    => /\ Cardinality({k \in 1..Len(LastRow.results) :
                                          LastRow.results[k].question_id = q}) = 1
                       /\ \A k \in 1..Len(LastRow.results) :
                             LastRow.results[k].question_id = q
                             => LastRow.results[k].user_answer = responses[i].userResponse
                       /\ LastRow.answers[ToString(q)] = responses[i].userResponse
            /\ LastRow.score = FinalScore(once.calculated_score)
            /\ response.status = 200 => response.body.correctQuestions = once.correct_count

\* C4: a response whose question id is not of the quiz is dropped without
\* error: score, answers, outcome records and the returned correct count are
\* those of the same submission without these entries, and the call fails
\* only as that submission would (the AI call after a wrong answer).
KnownResponses(responses, qmap) ==
    LET Known(resp) == resp.questionId \in DOMAIN qmap
    IN  SelectSeq(responses, Known)

C4_UnknownQuestionIdsDropped ==
    LastSubmitPersisted =>
        LET qmap  == QuestionMap(questions, request.quizId)
            kept  == KnownResponses(request.responses, qmap)
            alone == Grade(quizzes[request.quizId].max_score, qmap, kept)
        IN  /\ Len(LastRow.results) = Len(kept)
            /\ \A i \in 1..Len(kept) :
                  /\ LastRow.results[i].question_id = kept[i].questionId
                  /\ LastRow.results[i].user_answer = kept[i].userResponse
            /\ LastRow.results = alone.detailed_results
            /\ LastRow.answers = alone.user_answers
            /\ LastRow.score = FinalScore(alone.calculated_score)
            /\ response.status # 404
            /\ response.status = 200 =>
                  /\ response.body.correctQuestions = alone.correct_count
                  /\ response.body.score = LastRow.score
            /\ response.status # 200 =>
                  \E i \in 1..Len(kept) : ~LastRow.results[i].is_correct

C4_Witness ==
    /\ LastSubmitPersisted
    /\ response.status = 200
    /\ Len(request.responses) = 2
    /\ request.responses[1].questionId \notin DOMAIN questions
    /\ request.responses[2].questionId \in QuestionsOf(questions, request.quizId)
    /\ Len(LastRow.results) = 1
    /\ LastRow.score = LastRow.max_score

\* C5: a generate_quiz call that ends in failure leaves no Quiz row of its
\* own behind, and every stored Quiz has at least one Question.
C5_FailedGenerationLeavesNoQuiz ==
    /\ (request.op = "generate_quiz" /\ response.status # 200)
           => (nextQuizId - 1) \notin DOMAIN quizzes
    /\ \A quizId \in DOMAIN quizzes : QuestionsOf(questions, quizId) # {}

\* C6: get_submission_details and retry_quiz, given a submission id that does
\* not exist or is another user's, answer 404 with a fixed text and leave the
\* store as it was; an answer 200 is only ever about the caller's own row.
NotFoundTexts ==
    {"Submission not found or you do not have permission to view it.",
     "Submission not found or you do not have permission to retry it."}

ReadsSubmission == request.op \in {"get_submission_details", "retry_quiz"}

NotOwnRequest ==
    /\ ReadsSubmission
    /\ \/ request.submission_id \notin DOMAIN submissions
       \/ submissions[request.submission_id].user # request.user

C6_RefusedOrOwn ==
    /\ NotOwnRequest => response.status = 404 /\ response.body \in NotFoundTexts
    /\ (ReadsSubmission /\ response.status = 200) =>
          /\ request.submission_id \in DOMAIN submissions
          /\ submissions[request.submission_id].user = request.user
          /\ request.op = "get_submission_details" =>
                response.body.submission_id = request.submission_id
          /\ request.op = "retry_quiz" =>
                response.body.quiz_id = submissions[request.submission_id].quiz

C6_OnlyOwnSubmissions ==
    [][C6_RefusedOrOwn' /\ (NotOwnRequest' => UNCHANGED store)]_vars

C6_Witness ==
    /\ request.op = "get_submission_details"
    /\ request.submission_id \in DOMAIN submissions
    /\ submissions[request.submission_id].user # request.user
    /\ response.status = 404

\* C7: two submit_quiz calls with the same quiz and responses give two rows
\* with the same score and outcome records, and no call changes or removes a
\* Submission that exists.
GradedFrom(row) ==
    [i \in 1..Len(row.results) |->
        <<row.results[i].question_id, row.results[i].user_answer>>]

SameInputSameOutcome ==
    \A a, b \in DOMAIN submissions :
        (submissions[a].quiz = submissions[b].quiz
         /\ GradedFrom(submissions[a]) = GradedFrom(submissions[b]))
        => /\ submissions[a].score = submissions[b].score
           /\ submissions[a].results = submissions[b].results
           /\ submissions[a].answers = submissions[b].answers

SubmittedAgain ==
    /\ request.op = "submit_quiz" /\ request'.op = "submit_quiz"
    /\ request'.quizId = request.quizId /\ request'.responses = request.responses
    /\ request.quizId \in DOMAIN quizzes
    /\ nextSubmissionId' # nextSubmissionId

C7_SubmissionsAddedNeverChanged ==
    [][/\ \A id \in DOMAIN submissions :
             id \in DOMAIN submissions' /\ submissions'[id] = submissions[id]
       /\ SameInputSameOutcome'
       /\ SubmittedAgain =>
             /\ DOMAIN submissions' = DOMAIN submissions \cup {nextSubmissionId}
             /\ nextSubmissionId \notin DOMAIN submissions
             /\ submissions'[nextSubmissionId].score = LastRow.score
             /\ submissions'[nextSubmissionId].results = LastRow.results]_vars

C7_Witness ==
    /\ request.op = "submit_quiz"
    /\ DOMAIN submissions = {1, 2}
    /\ submissions[1].quiz = submissions[2].quiz
    /\ submissions[1].results = submissions[2].results
    /\ Len(submissions[1].results) > 0
    /\ submissions[1].score = submissions[2].score

\* C8: a review has one entry per stored outcome record, in stored order,
\* with the stored is_correct and correct_answer and the stored score and
\* max_score; a record whose question is gone gets the sentinel text.
C8_ReviewRepeatsStoredOutcome ==
    (request.op = "get_submission_details" /\ response.status = 200) =>
        LET submission == submissions[request.submission_id]
            review     == response.body.questions
        IN  /\ response.body.score = submission.score
            /\ response.body.max_score = submission.max_score
            /\ Len(review) = Len(submission.results)
            /\ \A i \in 1..Len(review) :
                  LET stored == submission.results[i]
                  IN  /\ review[i].is_correct = stored.is_correct
                      /\ review[i].correct_answer = stored.correct_answer
                      /\ review[i].your_answer = Upper(stored.user_answer)
                      /\ review[i].question_text =
                            IF /\ stored.question_id \in DOMAIN questions
                               /\ questions[stored.question_id].quiz = submission.quiz
                            THEN questions[stored.question_id].text
                            ELSE SentinelText

C8_Witness ==
    /\ request.op = "get_submission_details" /\ response.status = 200
    /\ Len(response.body.questions) = 2
    /\ response.body.questions[1].question_text = SentinelText
    /\ response.body.questions[1].is_correct
    /\ ~response.body.questions[2].is_correct
    /\ submissions[request.submission_id].results[1].question_id \notin DOMAIN questions

\* C10: a successful submit_quiz call adds exactly one Submission row and
\* changes no Quiz, no Question and no Submission that existed.
C10_SubmitWritesOneRow ==
    [][(request'.op = "submit_quiz" /\ response'.status = 200) =>
          /\ quizzes' = quizzes /\ questions' = questions
          /\ users' = users /\ profiles' = profiles
          /\ response'.body.submissionId \notin DOMAIN submissions
          /\ DOMAIN submissions' = DOMAIN submissions \cup {response'.body.submissionId}
          /\ \A id \in DOMAIN submissions : submissions'[id] = submissions[id]]_vars

C10_Witness ==
    /\ request.op = "submit_quiz" /\ response.status = 200
    /\ DOMAIN submissions = {1, 2}
    /\ response.body.submissionId = 2

\* C2: a submission that answers every question of the quiz correctly is
\* persisted with score = max_score, and one with no correct answer with
\* score = 0.
C2_AllCorrectScoresMax ==
    LastSubmitPersisted =>
        LET responses  == request.responses
            qmap       == QuestionMap(questions, request.quizId)
            Known(i)   == Found(qmap, responses[i].questionId)
            Correct(i) == IsCorrect(responses[i].userResponse,
                                    qmap[responses[i].questionId].correct_answer)
            entries    == 1..Len(responses)
        IN  /\ (/\ \A q \in DOMAIN qmap : \E i \in entries : responses[i].questionId = q
                /\ \A i \in entries : Known(i) => Correct(i))
                   => LastRow.score = LastRow.max_score
            /\ (\A i \in entries : Known(i) => ~Correct(i)) => LastRow.score = 0

\* C9: the score is k * max_score / n rounded to the nearest integer, halves
\* up, where n >= 1 is the number of questions and k the number of correct
\* answers (3 questions, max_score 10, 2 correct gives 7).
RoundHalfUp(num, den) == (2 * num + den) \div (2 * den)

C9_ScoreRoundsHalfUp ==
    (grading.pc = "done" /\ grading.total_questions >= 1) =>
        grading.score = RoundHalfUp(grading.correct_count * grading.max_score,
                                    grading.total_questions)

\* C11: grading updates the per-subject counters of the submitter's profile:
\* after a submission with graded answers on a quiz of subject S, the success
\* rate the user's next generate_quiz for S computes comes from counters that
\* include the submission's correct and total counts, not from the default.
CorrectResults(row) ==
    Cardinality({i \in 1..Len(row.results) : row.results[i].is_correct})

C11_GradingUpdatesCounters ==
    \A id \in DOMAIN submissions :
        LET row         == submissions[id]
            performance == Performance(ProfileOf(profiles, row.user).performance_metrics,
                                       quizzes[row.quiz].subject)
        IN  Len(row.results) > 0 =>
                /\ performance.total >= Len(row.results)
                /\ performance.correct >= CorrectResults(row)
                /\ SuccessRate(performance) =
                       FloatDiv(performance.correct, performance.total)

\* C13: a submit_quiz call that ends in an error leaves no Submission behind:
\* the Submission table after the call is the table before it.
C13_FailedSubmitStoresNothing ==
    [][(request'.op = "submit_quiz" /\ response'.status # 200)
          => submissions' = submissions]_vars

\* C14: when concurrent calls carry the same new username, every call whose
\* handler reads user.profile finds exactly one UserProfile of the user, and
\* at most one call creates the user (and with it the profile).
C14_ProfileReadyWhenRead ==
    /\ \A c \in DOMAIN calls :
          calls[c].pc \in {"failed", "profile_read", "done"} => calls[c].profiles_seen = 1
    /\ \A c, d \in DOMAIN calls :
          (calls[c].created /\ calls[d].created /\ calls[c].username = calls[d].username)
              => c = d

\* C12: once a get_hint call for a question has succeeded, the hint_cache
\* entry of the question is never changed or removed, a call that finds the
\* entry returns it without the lookup and without the AI, and a call that
\* fails adds no entry.
C12_CachedHintNeverChanges ==
    [][/\ \A q \in DOMAIN hint_cache :
             q \in DOMAIN hint_cache' /\ hint_cache'[q] = hint_cache[q]
       /\ \A c \in DOMAIN calls :
             (calls[c].pc = "check_cache" /\ calls'[c].pc # "check_cache"
                 /\ calls[c].questionId \in DOMAIN hint_cache)
             => /\ calls'[c].pc = "done" /\ calls'[c].status = 200
                /\ calls'[c].hint = hint_cache[calls[c].questionId]
                /\ ~calls'[c].asked_ai /\ ~calls'[c].looked_up
       /\ \A c \in DOMAIN calls :
             (calls'[c].pc = "done" /\ calls[c].pc # "done" /\ calls'[c].status # 200)
             => hint_cache' = hint_cache]_vars

====
